---------------------------- MODULE Spec2Model ----------------------------
(***************************************************************************)
(* A model of fastkml/styles.py: the KML style classes StyleUrl, Style,    *)
(* StyleMap, IconStyle, LineStyle, PolyStyle, LabelStyle, BalloonStyle and *)
(* their element-tree codec (etree_element / from_element).                *)
(*                                                                         *)
(* Python values are records [t, s, m, e]:                                 *)
(*   None           t = "None"                                             *)
(*   str            t = "str",   s = the characters, one per element; a    *)
(*                  character that cannot be written in a string here is   *)
(*                  the XML character reference of its code point:         *)
(*                  "&#11;" the vertical tab, "&#160;" the no-break space  *)
(*   int            t = "int",   m = the value; an int beyond the integers *)
(*                  of the checker has s = its decimal digits, m = its sign*)
(*   float          t = "float", the value is the decimal m / 10^e, the    *)
(*                  shortest one that reads as the float                   *)
(* Objects are records with a field cls and one field per attribute.       *)
(* An element is [tag, text, children]; text is None or a str.  Every      *)
(* object and element lives in one namespace, so a tag is its local name.  *)
(*                                                                         *)
(* self is the object the calls are made on and op the last call; arg is   *)
(* its argument (for a call on the object of a StyleMap slot, the slot),   *)
(* pre the object it was made on as it was before the call, ret what it    *)
(* returned or raised.  An encode that follows a decode keeps the arg and  *)
(* pre of the decode.  gen is the generator the last call of styles()      *)
(* returned, which reads the live bundle at each next().  alias says that  *)
(* the two slots of a StyleMap hold one and the same object.               *)
(***************************************************************************)
EXTENDS Integers, Sequences, FiniteSets, TLC

VARIABLES self, op, arg, pre, ret, gen, alias

vars == <<self, op, arg, pre, ret, gen, alias>>

\* x = value, then the statements after it: Body is evaluated with x bound
\* to the value of the expression
Bind(value, Body(_)) == CHOOSE y \in {Body(x) : x \in {value}} : TRUE

(***************************************************************************)
(* Python values                                                           *)
(*                                                                         *)
(* A float is the decimal number m / 10^e with m not a multiple of 10      *)
(* (e is negative for 1000.0 = 1 / 10^-3), the shortest decimal that reads *)
(* as the float; zero has m = 0, e = 0.  The field s of a float is <<>>,   *)
(* or "-" for -0.0, or "inf" (m = 1 or -1) or "nan".  The model holds the  *)
(* floats whose digits m are a number below 2^31, so at most 10 digits;    *)
(* the checker has no larger integers.  An int of magnitude below 2^31 is  *)
(* IntVal(n); a larger one is BigInt(sign, digits).                        *)
(***************************************************************************)
None == [t |-> "None", s |-> <<>>, m |-> 0, e |-> 0]

StrVal(chars) == [t |-> "str", s |-> chars, m |-> 0, e |-> 0]

IntVal(n) == [t |-> "int", s |-> <<>>, m |-> n, e |-> 0]

\* the int of magnitude 2^31 or more with the decimal digits, sign 1 or -1
BigInt(sign, digits) == [t |-> "int", s |-> digits, m |-> sign, e |-> 0]

RECURSIVE Normalise(_, _)
Normalise(m, e) ==
    IF m = 0 THEN [t |-> "float", s |-> <<>>, m |-> 0, e |-> 0]
    ELSE IF m % 10 = 0 THEN Normalise(m \div 10, e - 1)
         ELSE [t |-> "float", s |-> <<>>, m |-> m, e |-> e]

\* the float m / 10^e
FloatVal(m, e) == Normalise(m, e)

\* -0.0
NegZero == [t |-> "float", s |-> <<"-">>, m |-> 0, e |-> 0]

\* float("inf") for sign = 1, float("-inf") for sign = -1
Inf(sign) == [t |-> "float", s |-> <<"i", "n", "f">>, m |-> sign, e |-> 0]

NaN == [t |-> "float", s |-> <<"n", "a", "n">>, m |-> 0, e |-> 0]

IsInf(v) == v.t = "float" /\ v.s = <<"i", "n", "f">>

IsNaN(v) == v.t = "float" /\ v.s = <<"n", "a", "n">>

IsObject(v) == "cls" \in DOMAIN v

\* bool(v): None, "", 0, 0.0 and -0.0 are false; nan and inf are true; an
\* object without __bool__ or __len__ is true
Truthy(v) ==
    IF IsObject(v) THEN TRUE
    ELSE CASE v.t = "None" -> FALSE
           [] v.t = "str" -> Len(v.s) > 0
           [] OTHER -> v.m # 0 \/ IsNaN(v)

(***************************************************************************)
(* str(), float() and int() on numbers, character by character             *)
(***************************************************************************)
DigitChars == <<"0", "1", "2", "3", "4", "5", "6", "7", "8", "9">>

\* the character with the code point n, for the characters a string cannot
\* hold here, written as the XML character reference: "&#160;"
Chr(n) == "&#" \o ToString(n) \o ";"

\* the code points of the digit zero of the decimal digits of the other
\* scripts (category Nd of Unicode 14.0, the database of Python 3.11); the
\* nine digits after each follow it
UnicodeZeros ==
    {1632, 1776, 1984, 2406, 2534, 2662, 2790, 2918, 3046, 3174, 3302,
     3430, 3558, 3664, 3792, 3872, 4160, 4240, 6112, 6160, 6470, 6608,
     6784, 6800, 6992, 7088, 7232, 7248, 42528, 43216, 43264, 43472,
     43504, 43600, 44016, 65296, 66720, 68912, 69734, 69872, 69942,
     70096, 70384, 70736, 70864, 71248, 71360, 71472, 71904, 72016,
     72784, 73040, 73120, 92768, 92864, 93008, 120782, 120792, 120802,
     120812, 120822, 123200, 123632, 125264, 130032}

UnicodeDigits == {Chr(z + k) : z \in UnicodeZeros, k \in 0..9}

\* a decimal digit: float() reads the digits of every script
IsDigit(c) ==
    \/ \E i \in 1..10 : DigitChars[i] = c
    \/ Len(c) > 1 /\ c \in UnicodeDigits

DigitVal(c) ==
    IF \E i \in 1..10 : DigitChars[i] = c
    THEN (CHOOSE i \in 1..10 : DigitChars[i] = c) - 1
    ELSE CHOOSE k \in 0..9 : \E z \in UnicodeZeros : c = Chr(z + k)

RECURSIVE Pow10(_)
Pow10(k) == IF k = 0 THEN 1 ELSE 10 * Pow10(k - 1)

Abs(n) == IF n < 0 THEN 0 - n ELSE n

\* the decimal digits of a natural number
RECURSIVE NatStr(_)
NatStr(n) ==
    IF n < 10 THEN <<DigitChars[n + 1]>>
    ELSE NatStr(n \div 10) \o <<DigitChars[(n % 10) + 1]>>

\* k times "0"
Zeros(k) == [i \in 1..k |-> "0"]

\* repr of a float: the shortest digits that read back as the float, in
\* positional notation when the decimal point falls within -4 < decpt <= 16
\* ("0.0001", "2.5", "1000000000000000.0") and with an exponent of at least
\* two digits otherwise ("1e-05", "1.5e+16")
FloatStr(v) ==
    IF IsNaN(v) THEN <<"n", "a", "n">>
    ELSE IF IsInf(v)
         THEN (IF v.m < 0 THEN <<"-">> ELSE <<>>) \o <<"i", "n", "f">>
    ELSE IF v.m = 0 THEN v.s \o <<"0", ".", "0">>
    ELSE
      Bind(NatStr(Abs(v.m)), LAMBDA digits :
      Bind(Len(digits), LAMBDA n :
      Bind(n - v.e, LAMBDA decpt :
         (IF v.m < 0 THEN <<"-">> ELSE <<>>) \o
         (IF decpt > 16 \/ decpt <= -4
          THEN <<digits[1]>>
               \o (IF n > 1 THEN <<".">> \o SubSeq(digits, 2, n) ELSE <<>>)
               \o <<"e", IF decpt - 1 < 0 THEN "-" ELSE "+">>
               \o (IF Abs(decpt - 1) < 10 THEN <<"0">> ELSE <<>>)
               \o NatStr(Abs(decpt - 1))
          ELSE IF decpt <= 0
               THEN <<"0", ".">> \o Zeros(0 - decpt) \o digits
               ELSE IF decpt < n
                    THEN SubSeq(digits, 1, decpt) \o <<".">>
                         \o SubSeq(digits, decpt + 1, n)
                    ELSE digits \o Zeros(decpt - n) \o <<".", "0">>))))

\* str(v) for None, a str, an int or a float
PyStr(v) ==
    CASE v.t = "str" -> v
      [] v.t = "None" -> StrVal(<<"N", "o", "n", "e">>)
      [] v.t = "int" ->
            StrVal((IF v.m < 0 THEN <<"-">> ELSE <<>>)
                   \o (IF v.s # <<>> THEN v.s ELSE NatStr(Abs(v.m))))
      [] v.t = "float" -> StrVal(FloatStr(v))

\* the number written by the first k of the digits
RECURSIVE DigitsValUpTo(_, _)
DigitsValUpTo(digits, k) ==
    IF k = 0 THEN 0
    ELSE DigitsValUpTo(digits, k - 1) * 10 + DigitVal(digits[k])

DigitsVal(digits) == DigitsValUpTo(digits, Len(digits))

\* the whitespace float() strips from both ends: space, \t, \n, \v, \f, \r
\* and the whitespace of Unicode above 127
Whitespace ==
    {" ", "\t", "\n", "\r", "\f", Chr(11)}
    \cup {Chr(n) : n \in {133, 160, 5760} \cup (8192..8202)
                         \cup {8232, 8233, 8239, 8287, 12288}}

RECURSIVE Strip(_)
Strip(chars) ==
    IF chars # <<>> /\ chars[1] \in Whitespace THEN Strip(Tail(chars))
    ELSE IF chars # <<>> /\ chars[Len(chars)] \in Whitespace
         THEN Strip(SubSeq(chars, 1, Len(chars) - 1))
         ELSE chars

\* the letters of inf, infinity and nan in lower case
Lower(c) ==
    CASE c = "I" -> "i" [] c = "N" -> "n" [] c = "F" -> "f" [] c = "T" -> "t"
      [] c = "Y" -> "y" [] c = "A" -> "a" [] OTHER -> c

\* digit (["_"] digit)*
IsDigitPart(chars) ==
    /\ chars # <<>>
    /\ IsDigit(chars[1]) /\ IsDigit(chars[Len(chars)])
    /\ \A i \in 1..Len(chars) : IsDigit(chars[i]) \/ chars[i] = "_"
    /\ \A i \in 1..(Len(chars) - 1) : ~(chars[i] = "_" /\ chars[i + 1] = "_")

\* the digits without the underscores and the leading zeros
Digits(chars) ==
    Bind(SelectSeq(chars, IsDigit), LAMBDA ds :
    Bind({i \in 1..Len(ds) : DigitVal(ds[i]) # 0}, LAMBDA nz :
       IF nz = {} THEN <<>>
       ELSE SubSeq(ds, CHOOSE i \in nz : \A j \in nz : i <= j, Len(ds))))

Raise(exc) == [exc |-> exc, val |-> None]

Return(val) == [exc |-> "None", val |-> val]

(***************************************************************************)
(* Rounding a decimal to a float.  A decimal m / 10^e of at most 10 digits *)
(* with e <= 323 is the shortest that reads as its float, and stands for   *)
(* it.  Above the largest float it is inf; with digits below 1e-323 it is  *)
(* rounded to the nearest multiple of the smallest float 2^-1074, for      *)
(* which natural numbers beyond the integers of the checker are needed:    *)
(* sequences of limbs in base 10000, the least first.                      *)
(***************************************************************************)
Base == 10000

\* the carry into limb i of sums below 2 * Base: a limb below i overflows
\* and every limb between passes the carry on
Carry(s, i) ==
    IF \E j \in 1..(i - 1) :
          s[j] >= Base /\ \A l \in (j + 1)..(i - 1) : s[l] >= Base - 1
    THEN 1 ELSE 0

\* the number of the limbs sums[i] < 2 * Base, each limb below Base and
\* no zero limb above the highest
Settle(sums) ==
    Bind(sums \o <<0>>, LAMBDA s :
    Bind([i \in 1..Len(s) |-> (s[i] + Carry(s, i)) % Base], LAMBDA x :
       SubSeq(x, 1, CHOOSE n \in 0..Len(x) :
                       /\ n = 0 \/ x[n] # 0
                       /\ \A i \in (n + 1)..Len(x) : x[i] = 0)))

\* the limb i of a, 0 beyond its limbs
At(a, i) == IF i >= 1 /\ i <= Len(a) THEN a[i] ELSE 0

\* a + b
BigSum(a, b) ==
    Bind(a, LAMBDA x :
    Bind(b, LAMBDA y :
       Settle([i \in 1..(IF Len(x) > Len(y) THEN Len(x) ELSE Len(y)) |->
                 At(x, i) + At(y, i)])))

\* a * n for a natural number n of the checker, of the limbs n0, n1, n2:
\* the sums a[i] * n0 + a[i - 1] * n1 + a[i - 2] * n2, each of three limbs,
\* then the sums of the limbs that meet, then of what these carry
BigTimes(a, n) ==
    Bind(a, LAMBDA x :
    Bind([i \in 1..(Len(x) + 2) |->
            (At(x, i) * (n % Base))
            + (At(x, i - 1) * ((n \div Base) % Base))
            + (At(x, i - 2) * (n \div (Base * Base)))], LAMBDA raw :
    Bind([i \in 1..(Len(raw) + 2) |->
            (At(raw, i) % Base) + ((At(raw, i - 1) \div Base) % Base)
            + (At(raw, i - 2) \div (Base * Base))], LAMBDA met :
       Settle([i \in 1..(Len(met) + 1) |->
                 (At(met, i) % Base) + (At(met, i - 1) \div Base)]))))

\* a < b
BigLess(a, b) ==
    Bind(a, LAMBDA x :
    Bind(b, LAMBDA y :
       IF Len(x) # Len(y) THEN Len(x) < Len(y)
       ELSE \E i \in 1..Len(x) :
               x[i] < y[i] /\ \A j \in (i + 1)..Len(x) : x[j] = y[j]))

\* The smallest float is 2^-1074, and a decimal is rounded at the odd
\* multiples of 2^-1075 = 5^324 / (2^751 * 10^324).  The limbs of 2^751:
Pow2_751 ==
    <<1248, 434, 1234, 6051, 1358, 8915, 6387, 4586, 3771, 4436, 9218,
      2729, 5382, 2215, 6903, 3769, 8711, 19, 3152, 2525, 8421, 5193,
      9866, 7411, 6537, 885, 9836, 4559, 5091, 8008, 5024, 5721, 9771,
      325, 661, 9492, 6312, 5929, 1834, 5120, 5222, 6914, 8089, 1901,
      8947, 7117, 6603, 4657, 4239, 1329, 6350, 323, 1148, 657, 3043,
      4477, 118>>

\* the limbs of 5^324
Pow5_324 ==
    <<625, 5664, 5705, 4128, 8113, 1847, 8757, 4006, 8698, 5571, 9639,
      4694, 1816, 8268, 8277, 8844, 1715, 7943, 7055, 1129, 6827, 8826,
      2002, 4683, 8874, 4585, 7448, 5122, 4637, 1914, 9086, 5901, 4039,
      9620, 6935, 2914, 7809, 1249, 4792, 7395, 8662, 2215, 7107, 4572,
      4636, 5867, 6889, 5619, 6728, 3661, 588, 4724, 3954, 8262, 7216,
      6047, 292>>

\* the decimal 0.d1 d2 ... dn of the digits lies above 0.17976931348623158079,
\* the first digits of 2^1024 - 2^970, half way from the largest float
\* 1.7976931348623157e308 to 2^1024: a decimal of at most 20 digits above
\* them is read as inf
Overflows(digits) ==
    LET half == <<1, 7, 9, 7, 6, 9, 3, 1, 3, 4, 8, 6, 2, 3, 1, 5, 8, 0, 7, 9>>
    IN  \E i \in 1..Len(half) :
           /\ i <= Len(digits) /\ DigitVal(digits[i]) > half[i]
           /\ \A j \in 1..(i - 1) : DigitVal(digits[j]) = half[j]

\* the float k * 2^-1074, k > 0, as its repr has it: of the decimals n /
\* 10^324 that round to it, those between (2k - 1) and (2k + 1) times
\* 2^-1075, the multiple of 10 when there is one and else the nearest to
\* it.  They lie within 5 of q when q / 10^324 rounds to it.
ShortestSubnormal(k, q) ==
    Bind([n \in {2 * k - 1, 2 * k + 1, 4 * k} |-> BigTimes(Pow5_324, n)],
         LAMBDA edge :
    Bind([n \in {n \in (q - 5)..(q + 6) : n >= 1} |-> BigTimes(Pow2_751, n)],
         LAMBDA at :
    Bind({n \in DOMAIN at : /\ BigLess(edge[2 * k - 1], at[n])
                            /\ BigLess(at[n], edge[2 * k + 1])}, LAMBDA near :
    Bind({n \in near : n % 10 = 0}, LAMBDA tens :
       IF tens # {} THEN FloatVal(CHOOSE n \in tens : TRUE, 324)
       ELSE FloatVal(CHOOSE n \in near : \A o \in near \ {n} :
                        Bind(BigSum(at[n], at[o]), LAMBDA sum :
                           IF n < o THEN BigLess(edge[4 * k], sum)
                           ELSE BigLess(sum, edge[4 * k])),
                     324)))))

\* the float nearest to m / 10^(324 + j), m > 0, the multiple k * 2^-1074
\* with (2k - 1) * 2^-1075 <= m / 10^(324 + j) < (2k + 1) * 2^-1075, that
\* is (2k - 1) * 5^324 * 10^j <= m * 2^751 < (2k + 1) * 5^324 * 10^j; k
\* lies within a few of q * 0.2024022533 for q = m / 10^j, as 2^-1074 is
\* 4.9406564584 / 10^324
Subnormal(m, j) ==
    Bind(m \div Pow10(j), LAMBDA q :
    Bind((q \div 100000) * 20240 + ((q \div 100000) * 22533) \div 100000
         + ((q % 100000) * 2024) \div 10000, LAMBDA guess :
    Bind(BigTimes(Pow5_324, Pow10(j)), LAMBDA half :
    Bind(BigTimes(Pow2_751, m), LAMBDA x :
    Bind([n \in {2 * k + 1 : k \in {k \in (guess - 4)..(guess + 6) : k >= 0}}
            |-> BigLess(x, BigTimes(half, n))], LAMBDA under :
    Bind(CHOOSE k \in (guess - 3)..(guess + 6) :
            /\ k >= 0
            /\ k = 0 \/ ~under[2 * k - 1]
            /\ under[2 * k + 1], LAMBDA k :
       IF k = 0 THEN FloatVal(0, 0) ELSE ShortestSubnormal(k, q)))))))

\* the float nearest to m * 10^x, m >= 0, with the sign
Nearest(neg, m, x) ==
    IF m = 0 THEN (IF neg THEN NegZero ELSE FloatVal(0, 0))
    ELSE
      Bind(FloatVal(m, 0 - x), LAMBDA d :
      Bind(NatStr(d.m), LAMBDA digits :
      Bind(Len(digits) - d.e, LAMBDA decpt :
      Bind(IF decpt > 309 \/ (decpt = 309 /\ Overflows(digits))
           THEN Inf(1)
           ELSE IF decpt < -323 THEN FloatVal(0, 0)
           ELSE IF d.e >= 324 THEN Subnormal(d.m, d.e - 324)
           ELSE d, LAMBDA f :
         IF ~neg THEN f
         ELSE IF f.m = 0 THEN NegZero
         ELSE [f EXCEPT !.m = 0 - f.m]))))

\* the float written by the digits ip . fp with the exponent evalue
Decimal(neg, ip, fp, evalue) ==
    Bind(SelectSeq(fp, IsDigit), LAMBDA fdigits :
    Bind(Digits(ip) \o fdigits, LAMBDA all :
    Bind({i \in 1..Len(all) : DigitVal(all[i]) # 0}, LAMBDA sig :
    Bind(IF sig = {} THEN 0 ELSE CHOOSE i \in sig : \A j \in sig : j <= i,
         LAMBDA last :
    Bind(SubSeq(all, 1, last), LAMBDA digits :
    Bind(DigitsVal(digits), LAMBDA m :
    Bind(evalue - Len(fdigits) + Len(all) - last, LAMBDA x :
       Nearest(neg, m, x))))))))

\* the exponent after e or E: [sign] digits; one of more than nine digits
\* after its leading zeros is taken for 1100000000 (MAX_ABS_EXP of
\* Python's dtoa.c)
Exponent(expo) ==
    Bind(IF expo # <<>> /\ expo[1] \in {"-", "+"} THEN Tail(expo) ELSE expo,
         LAMBDA ebody :
       IF ~IsDigitPart(ebody) THEN [ok |-> FALSE, value |-> 0]
       ELSE Bind(Digits(ebody), LAMBDA edigits :
            Bind(IF Len(edigits) > 9 THEN 1100000000 ELSE DigitsVal(edigits),
                 LAMBDA e :
               [ok |-> TRUE,
                value |-> IF expo[1] = "-" THEN 0 - e ELSE e])))

\* digits [. [digits]] [exponent] or . digits [exponent]
Number(neg, body) ==
    Bind({i \in 1..Len(body) : body[i] \in {"e", "E"}}, LAMBDA es :
    Bind(IF es = {} THEN Len(body) + 1
         ELSE CHOOSE i \in es : \A j \in es : i <= j, LAMBDA cut :
    Bind(SubSeq(body, 1, cut - 1), LAMBDA mant :
    Bind(SubSeq(body, cut + 1, Len(body)), LAMBDA expo :
    Bind(IF es = {} THEN [ok |-> TRUE, value |-> 0] ELSE Exponent(expo),
         LAMBDA ex :
    Bind({i \in 1..Len(mant) : mant[i] = "."}, LAMBDA dots :
    Bind(IF dots = {} THEN Len(mant) + 1
         ELSE CHOOSE i \in dots : \A j \in dots : i <= j, LAMBDA dot :
    Bind(SubSeq(mant, 1, dot - 1), LAMBDA ip :
    Bind(SubSeq(mant, dot + 1, Len(mant)), LAMBDA fp :
       IF /\ ex.ok
          /\ ip = <<>> \/ IsDigitPart(ip)
          /\ fp = <<>> \/ IsDigitPart(fp)
          /\ ip # <<>> \/ fp # <<>>
       THEN Return(Decimal(neg, ip, fp, ex.value))
       ELSE Raise("ValueError"))))))))))

\* float(text): None raises TypeError; a str is stripped of whitespace and
\* read as [sign] (inf | infinity | nan | number), in either case of the
\* letters; the digits may have single underscores between them; any other
\* text raises ValueError
PyFloat(text) ==
    IF text.t = "None" THEN Raise("TypeError")
    ELSE
      Bind(Strip(text.s), LAMBDA stripped :
      Bind(stripped # <<>> /\ stripped[1] = "-", LAMBDA neg :
      Bind(IF stripped # <<>> /\ stripped[1] \in {"-", "+"}
           THEN Tail(stripped) ELSE stripped, LAMBDA body :
      Bind([i \in 1..Len(body) |-> Lower(body[i])], LAMBDA lower :
         IF lower = <<"n", "a", "n">> THEN Return(NaN)
         ELSE IF lower \in {<<"i", "n", "f">>,
                            <<"i", "n", "f", "i", "n", "i", "t", "y">>}
              THEN Return(Inf(IF neg THEN -1 ELSE 1))
              ELSE Number(neg, body)))))

(***************************************************************************)
(* int() of a float.  A float of magnitude 2^53 or more is M * 2^E with    *)
(* 2^52 <= M < 2^53, and int() is that number, digit for digit, which the  *)
(* shortest decimal m * 10^k of the float is not: the decimal is rounded   *)
(* to M * 2^E as float() rounds it, M = m * 5^k / 2^(E - k) to the nearest *)
(* integer, the even one at a tie.                                         *)
(***************************************************************************)
RECURSIVE Pow(_, _)
Pow(b, k) == IF k = 0 THEN 1 ELSE b * Pow(b, k - 1)

\* the limbs of the number the decimal digits write
LimbsOf(digits) ==
    Bind(digits, LAMBDA ds :
       [i \in 1..((Len(ds) + 3) \div 4) |->
          DigitsVal(SubSeq(ds, IF Len(ds) - (4 * i) + 1 < 1 THEN 1
                               ELSE Len(ds) - (4 * i) + 1,
                           Len(ds) - (4 * i) + 4))])

\* the decimal digits of the number of the limbs, which is not zero
DigitsOf(limbs) ==
    Bind(limbs, LAMBDA a :
       NatStr(a[Len(a)])
       \o [j \in 1..(4 * (Len(a) - 1)) |->
             DigitChars[((a[Len(a) - 1 - ((j - 1) \div 4)]
                          \div Pow10(3 - ((j - 1) % 4))) % 10) + 1]])

\* a * b^k for b = 2 or 5, by factors b^j the checker holds
RECURSIVE TimesPow(_, _, _)
TimesPow(a, b, k) ==
    IF k <= (IF b = 2 THEN 30 ELSE 13) THEN BigTimes(a, Pow(b, k))
    ELSE Bind(TimesPow(a, b, k \div 2), LAMBDA x :
            TimesPow(x, b, k - (k \div 2)))

\* the decimal digits of the float nearest m * 10^k, for m >= 1 and k >= 0.
\* The float is below 2^(a + 1) and not below 2^(a - 1), for a the sum of
\* the whole parts of log2(m) and k * log2(10), so E is a - 52 or a - 51:
\* the one where the whole part q of m * 5^E / 10^(E - k) has 53 bits.
\* Below 2^53 the decimal is the float.
ExactInt(m, k) ==
    Bind(NatStr(m), LAMBDA digits :
    Bind((CHOOSE b \in 0..30 : Pow(2, b) <= m /\ (b = 30 \/ m < Pow(2, b + 1)))
         + ((k * 3321928) \div 1000000), LAMBDA a :
       IF a - 52 < k THEN digits \o Zeros(k)
       ELSE
         Bind([E \in {a - 52, a - 51} |->
                 DigitsOf(TimesPow(LimbsOf(digits), 5, E))], LAMBDA scaled :
         Bind(CHOOSE E \in DOMAIN scaled :
                 Bind(LimbsOf(SubSeq(scaled[E], 1,
                                     Len(scaled[E]) - (E - k))), LAMBDA q :
                    /\ ~BigLess(q, <<496, 2737, 5996, 4503>>)
                    /\ BigLess(q, <<992, 5474, 1992, 9007>>)), LAMBDA E :
         Bind(Len(scaled[E]) - (E - k), LAMBDA whole :
         Bind(LimbsOf(SubSeq(scaled[E], 1, whole)), LAMBDA q :
         Bind(SubSeq(scaled[E], whole + 1, Len(scaled[E])), LAMBDA dropped :
         Bind(dropped # <<>>
              /\ (\/ DigitVal(dropped[1]) > 5
                  \/ /\ dropped[1] = "5"
                     /\ \/ \E i \in 2..Len(dropped) : dropped[i] # "0"
                        \/ q[1] % 2 = 1), LAMBDA up :
            DigitsOf(TimesPow(IF up THEN BigSum(q, <<1>>) ELSE q, 2, E))))))))))

\* int(x) of a float: truncation toward zero; OverflowError for an
\* infinity and ValueError for nan
PyInt(f) ==
    IF IsNaN(f) THEN Raise("ValueError")
    ELSE IF IsInf(f) THEN Raise("OverflowError")
    ELSE IF f.e > 0
         THEN Return(IntVal(IF f.e > 9 THEN 0
                            ELSE (IF f.m < 0 THEN -1 ELSE 1)
                                 * (Abs(f.m) \div Pow10(f.e))))
         ELSE
           Bind(Len(NatStr(Abs(f.m))) - f.e, LAMBDA length :
              IF \/ f.m = 0
                 \/ length <= 9
                 \/ length = 10 /\ Abs(f.m) <= 2147483647 \div Pow10(0 - f.e)
              THEN Return(IntVal(f.m * Pow10(0 - f.e)))
              ELSE Return(BigInt(IF f.m < 0 THEN -1 ELSE 1,
                                 ExactInt(Abs(f.m), 0 - f.e))))

\* a == b for two values that are not one and the same object: an int and
\* a float are equal when they are the same number, 0.0 == -0.0, nan equals
\* nothing, and an object of these classes, which define no __eq__, equals
\* no other object
PyEq(a, b) ==
    IF IsObject(a) \/ IsObject(b) THEN FALSE
    ELSE IF a.t = "float" /\ b.t = "float"
         THEN /\ ~IsNaN(a) /\ ~IsNaN(b)
              /\ IsInf(a) = IsInf(b)
              /\ Normalise(a.m, a.e).m = Normalise(b.m, b.e).m
              /\ Normalise(a.m, a.e).e = Normalise(b.m, b.e).e
    ELSE IF {a.t, b.t} = {"int", "float"}
         THEN Bind(IF a.t = "float" THEN a ELSE b, LAMBDA f :
                 /\ ~IsNaN(f) /\ ~IsInf(f)
                 /\ Normalise(f.m, f.e).e <= 0
                 /\ PyInt(f).val = (IF a.t = "int" THEN a ELSE b))
         ELSE a = b

(***************************************************************************)
(* Element trees                                                           *)
(***************************************************************************)
NoElement == [none |-> TRUE]

\* etree.SubElement(parent, tag) followed by the assignment of its text
SubElement(parent, tag, text) ==
    [parent EXCEPT !.children =
        Append(@, [tag |-> tag, text |-> text, children |-> <<>>])]

\* parent.append(child)
AppendChild(parent, child) == [parent EXCEPT !.children = Append(@, child)]

\* element.find(tag): the first child with the tag, or None
Find(element, tag) ==
    LET hits == {i \in 1..Len(element.children) : element.children[i].tag = tag}
    IN IF hits = {} THEN NoElement
       ELSE element.children[CHOOSE i \in hits : \A j \in hits : i <= j]

\* element.findall(tag): the children with the tag, in document order
RECURSIVE SelectTag(_, _)
SelectTag(children, tag) ==
    IF children = <<>> THEN <<>>
    ELSE (IF Head(children).tag = tag THEN <<Head(children)>> ELSE <<>>)
         \o SelectTag(Tail(children), tag)

FindAll(element, tag) == SelectTag(element.children, tag)

(***************************************************************************)
(* Classes: __name__ and isinstance                                        *)
(***************************************************************************)
ColorStyleClasses == {"IconStyle", "LineStyle", "PolyStyle", "LabelStyle"}

\* the class of a value: obj.cls, or the name of the builtin type
ClassOf(v) == IF IsObject(v) THEN v.cls ELSE v.t

\* the classes cls derives from, itself included
Bases(cls) ==
    IF cls \in ColorStyleClasses THEN {cls, "_ColorStyle", "_BaseObject"}
    ELSE IF cls \in {"Style", "StyleMap"}
         THEN {cls, "_StyleSelector", "_BaseObject"}
         ELSE IF cls \in {"StyleUrl", "BalloonStyle", "_ColorStyle",
                          "_StyleSelector"}
              THEN {cls, "_BaseObject"}
              ELSE {cls}

IsInstance(v, classes) == Bases(ClassOf(v)) \cap classes # {}

\* _BaseObject.etree_element: the empty element named by the class's __name__
BaseElement(obj) ==
    [tag |-> IF obj.cls = "StyleUrl" THEN "styleUrl" ELSE obj.cls,
     text |-> None, children |-> <<>>]

Raised(exc, obj) == [exc |-> exc, val |-> obj]

(***************************************************************************)
(* StyleUrl                                                                *)
(***************************************************************************)
StyleUrl(url) == [cls |-> "StyleUrl", url |-> url]

\* StyleUrl.etree_element testing "is not None" where the code tests truth
StyleUrl_etree_element_unset_only(obj) ==
    IF obj.url # None
    THEN Return([BaseElement(obj) EXCEPT !.text = obj.url])
    ELSE Raise("ValueError")

StyleUrl_etree_element(obj) ==
    IF Truthy(obj.url)
    THEN Return([BaseElement(obj) EXCEPT !.text = obj.url])
    ELSE Raise("ValueError")

StyleUrl_from_element(obj, element) ==
    Return([obj EXCEPT !.url = element.text])

(***************************************************************************)
(* The colour styles                                                       *)
(***************************************************************************)
IconStyle(color, colorMode, scale, heading, icon_href) ==
    [cls |-> "IconStyle", color |-> color, colorMode |-> colorMode,
     scale |-> scale, heading |-> heading, icon_href |-> icon_href]

LineStyle(color, colorMode, width) ==
    [cls |-> "LineStyle", color |-> color, colorMode |-> colorMode,
     width |-> width]

PolyStyle(color, colorMode, fill, outline) ==
    [cls |-> "PolyStyle", color |-> color, colorMode |-> colorMode,
     fill |-> fill, outline |-> outline]

LabelStyle(color, colorMode, scale) ==
    [cls |-> "LabelStyle", color |-> color, colorMode |-> colorMode,
     scale |-> scale]

ColorStyle_etree_element(obj) ==
    LET element == BaseElement(obj)
        e1 == IF Truthy(obj.color)
              THEN SubElement(element, "color", obj.color) ELSE element
    IN IF Truthy(obj.colorMode)
       THEN SubElement(e1, "colorMode", obj.colorMode) ELSE e1

\* _ColorStyle.from_element assigning color from find() whether or not the
\* child is there
ColorStyle_from_element_reset(obj, element) ==
    Bind(Find(element, "colorMode"), LAMBDA colorMode :
    Bind(IF colorMode # NoElement
         THEN [obj EXCEPT !.colorMode = colorMode.text] ELSE obj, LAMBDA o1 :
    Bind(Find(element, "color"), LAMBDA color :
       IF color # NoElement THEN [o1 EXCEPT !.color = color.text]
       ELSE [o1 EXCEPT !.color = None])))

ColorStyle_from_element(obj, element) ==
    Bind(Find(element, "colorMode"), LAMBDA colorMode :
    Bind(IF colorMode # NoElement
         THEN [obj EXCEPT !.colorMode = colorMode.text] ELSE obj, LAMBDA o1 :
    Bind(Find(element, "color"), LAMBDA color :
       IF color # NoElement THEN [o1 EXCEPT !.color = color.text] ELSE o1)))

IconStyle_etree_element(obj) ==
    LET element == ColorStyle_etree_element(obj)
        e1 == IF obj.scale # None
              THEN SubElement(element, "scale", PyStr(obj.scale)) ELSE element
        e2 == IF Truthy(obj.heading)
              THEN SubElement(e1, "heading", PyStr(obj.heading)) ELSE e1
    IN Return(IF Truthy(obj.icon_href)
              THEN AppendChild(e2, SubElement([tag |-> "Icon", text |-> None,
                                               children |-> <<>>],
                                              "href", obj.icon_href))
              ELSE e2)

IconStyle_from_element(obj, element) ==
    Bind(ColorStyle_from_element(obj, element), LAMBDA o0 :
    Bind(Find(element, "scale"), LAMBDA scale :
    Bind(IF scale # NoElement THEN PyFloat(scale.text) ELSE Return(o0.scale),
         LAMBDA fs :
       IF fs.exc # "None" THEN Raised(fs.exc, o0)
       ELSE
    Bind([o0 EXCEPT !.scale = fs.val], LAMBDA o1 :
    Bind(Find(element, "heading"), LAMBDA heading :
    Bind(IF heading # NoElement THEN PyFloat(heading.text)
         ELSE Return(o1.heading), LAMBDA fh :
       IF fh.exc # "None" THEN Raised(fh.exc, o1)
       ELSE
    Bind([o1 EXCEPT !.heading = fh.val], LAMBDA o2 :
    Bind(Find(element, "Icon"), LAMBDA icon :
    Bind(IF icon # NoElement THEN Find(icon, "href") ELSE NoElement,
         LAMBDA href :
       Return(IF href # NoElement
              THEN [o2 EXCEPT !.icon_href = href.text] ELSE o2))))))))))

LineStyle_etree_element(obj) ==
    LET element == ColorStyle_etree_element(obj)
    IN Return(IF obj.width # None
              THEN SubElement(element, "width", PyStr(obj.width)) ELSE element)

LineStyle_from_element(obj, element) ==
    Bind(ColorStyle_from_element(obj, element), LAMBDA o0 :
    Bind(Find(element, "width"), LAMBDA width :
    Bind(IF width # NoElement THEN PyFloat(width.text) ELSE Return(o0.width),
         LAMBDA fw :
       IF fw.exc # "None" THEN Raised(fw.exc, o0)
       ELSE Return([o0 EXCEPT !.width = fw.val]))))

PolyStyle_etree_element(obj) ==
    LET element == ColorStyle_etree_element(obj)
        e1 == IF obj.fill # None
              THEN SubElement(element, "fill", PyStr(obj.fill)) ELSE element
    IN Return(IF obj.outline # None
              THEN SubElement(e1, "outline", PyStr(obj.outline)) ELSE e1)

PolyStyle_from_element(obj, element) ==
    Bind(ColorStyle_from_element(obj, element), LAMBDA o0 :
    Bind(Find(element, "fill"), LAMBDA fill :
    Bind(IF fill # NoElement THEN PyFloat(fill.text) ELSE Return(None),
         LAMBDA ff :
       IF ff.exc # "None" THEN Raised(ff.exc, o0)
       ELSE
    Bind(IF fill # NoElement THEN PyInt(ff.val) ELSE Return(o0.fill),
         LAMBDA fi :
       IF fi.exc # "None" THEN Raised(fi.exc, o0)
       ELSE
    Bind([o0 EXCEPT !.fill = fi.val], LAMBDA o1 :
    Bind(Find(element, "outline"), LAMBDA outline :
    Bind(IF outline # NoElement THEN PyFloat(outline.text) ELSE Return(None),
         LAMBDA fo :
       IF fo.exc # "None" THEN Raised(fo.exc, o1)
       ELSE
    Bind(IF outline # NoElement THEN PyInt(fo.val) ELSE Return(o1.outline),
         LAMBDA oi :
       IF oi.exc # "None" THEN Raised(oi.exc, o1)
       ELSE Return([o1 EXCEPT !.outline = oi.val])))))))))

LabelStyle_etree_element(obj) ==
    LET element == ColorStyle_etree_element(obj)
    IN Return(IF obj.scale # None
              THEN SubElement(element, "scale", PyStr(obj.scale)) ELSE element)

LabelStyle_from_element(obj, element) ==
    Bind(ColorStyle_from_element(obj, element), LAMBDA o0 :
    Bind(Find(element, "scale"), LAMBDA scale :
    Bind(IF scale # NoElement THEN PyFloat(scale.text) ELSE Return(o0.scale),
         LAMBDA fs :
       IF fs.exc # "None" THEN Raised(fs.exc, o0)
       ELSE Return([o0 EXCEPT !.scale = fs.val]))))

(***************************************************************************)
(* BalloonStyle                                                            *)
(***************************************************************************)
BalloonStyle(bgColor, textColor, text, displayMode) ==
    [cls |-> "BalloonStyle", bgColor |-> bgColor, textColor |-> textColor,
     text |-> text, displayMode |-> displayMode]

\* BalloonStyle.from_element reading the legacy color child after bgColor,
\* so that it wins
BalloonStyle_from_element_legacy_wins(obj, element) ==
    Bind(Find(element, "bgColor"), LAMBDA bgColor :
    Bind(Find(element, "color"), LAMBDA legacy :
    Bind(IF legacy # NoElement THEN [obj EXCEPT !.bgColor = legacy.text]
         ELSE IF bgColor # NoElement
              THEN [obj EXCEPT !.bgColor = bgColor.text] ELSE obj, LAMBDA o1 :
    Bind(Find(element, "textColor"), LAMBDA textColor :
    Bind(IF textColor # NoElement
         THEN [o1 EXCEPT !.textColor = textColor.text] ELSE o1, LAMBDA o2 :
    Bind(Find(element, "text"), LAMBDA text :
    Bind(IF text # NoElement THEN [o2 EXCEPT !.text = text.text] ELSE o2,
         LAMBDA o3 :
    Bind(Find(element, "displayMode"), LAMBDA displayMode :
       Return(IF displayMode # NoElement
              THEN [o3 EXCEPT !.displayMode = displayMode.text] ELSE o3)))))))))

BalloonStyle_from_element(obj, element) ==
    Bind(Find(element, "bgColor"), LAMBDA bgColor :
    Bind(Find(element, "color"), LAMBDA legacy :
    Bind(IF bgColor # NoElement THEN [obj EXCEPT !.bgColor = bgColor.text]
         ELSE IF legacy # NoElement
              THEN [obj EXCEPT !.bgColor = legacy.text] ELSE obj, LAMBDA o1 :
    Bind(Find(element, "textColor"), LAMBDA textColor :
    Bind(IF textColor # NoElement
         THEN [o1 EXCEPT !.textColor = textColor.text] ELSE o1, LAMBDA o2 :
    Bind(Find(element, "text"), LAMBDA text :
    Bind(IF text # NoElement THEN [o2 EXCEPT !.text = text.text] ELSE o2,
         LAMBDA o3 :
    Bind(Find(element, "displayMode"), LAMBDA displayMode :
       Return(IF displayMode # NoElement
              THEN [o3 EXCEPT !.displayMode = displayMode.text] ELSE o3)))))))))

BalloonStyle_etree_element(obj) ==
    LET element == BaseElement(obj)
        e1 == IF obj.bgColor # None
              THEN SubElement(element, "bgColor", obj.bgColor) ELSE element
        e2 == IF obj.textColor # None
              THEN SubElement(e1, "textColor", obj.textColor) ELSE e1
        e3 == IF obj.text # None THEN SubElement(e2, "text", obj.text) ELSE e2
    IN Return(IF obj.displayMode # None
              THEN SubElement(e3, "displayMode", obj.displayMode) ELSE e3)

(***************************************************************************)
(* Dynamic dispatch on the five member classes, and their constructors     *)
(* called with the defaults, as Style.from_element calls them              *)
(***************************************************************************)
\* style.etree_element(); that of a _ColorStyle created directly starts with
\* the one of _BaseObject (fastkml.base), which raises NotImplementedError
\* for a class that, as _ColorStyle, names no element
Member_etree_element(obj) ==
    CASE obj.cls = "_ColorStyle" -> Raise("NotImplementedError")
      [] obj.cls = "IconStyle" -> IconStyle_etree_element(obj)
      [] obj.cls = "LineStyle" -> LineStyle_etree_element(obj)
      [] obj.cls = "PolyStyle" -> PolyStyle_etree_element(obj)
      [] obj.cls = "LabelStyle" -> LabelStyle_etree_element(obj)
      [] obj.cls = "BalloonStyle" -> BalloonStyle_etree_element(obj)

Member_from_element(obj, element) ==
    CASE obj.cls = "IconStyle" -> IconStyle_from_element(obj, element)
      [] obj.cls = "LineStyle" -> LineStyle_from_element(obj, element)
      [] obj.cls = "PolyStyle" -> PolyStyle_from_element(obj, element)
      [] obj.cls = "LabelStyle" -> LabelStyle_from_element(obj, element)
      [] obj.cls = "BalloonStyle" -> BalloonStyle_from_element(obj, element)

\* cls(ns): scale = 1.0, width = 1, fill = 1, outline = 1, the rest None;
\* _ColorStyle, abstract by its docstring alone, is created as any other
New(cls) ==
    CASE cls = "_ColorStyle" ->
            [cls |-> "_ColorStyle", color |-> None, colorMode |-> None]
      [] cls = "IconStyle" -> IconStyle(None, None, FloatVal(1, 0), None, None)
      [] cls = "LineStyle" -> LineStyle(None, None, IntVal(1))
      [] cls = "PolyStyle" -> PolyStyle(None, None, IntVal(1), IntVal(1))
      [] cls = "LabelStyle" -> LabelStyle(None, None, FloatVal(1, 0))
      [] cls = "BalloonStyle" -> BalloonStyle(None, None, None, None)
      [] cls = "StyleUrl" -> StyleUrl(None)
      [] cls = "Style" -> [cls |-> "Style", styles |-> <<>>]
      [] cls = "StyleMap" ->
            [cls |-> "StyleMap", normal |-> None, highlight |-> None]

(***************************************************************************)
(* Style: the bundle self._styles                                          *)
(***************************************************************************)
\* append_style testing isinstance(style, _BaseObject)
Style_append_style_any_object(obj, style) ==
    IF IsInstance(style, {"_BaseObject"})
    THEN Return([obj EXCEPT !.styles = Append(@, style)])
    ELSE Raised("TypeError", obj)

Style_append_style(obj, style) ==
    IF IsInstance(style, {"_ColorStyle", "BalloonStyle"})
    THEN Return([obj EXCEPT !.styles = Append(@, style)])
    ELSE Raised("TypeError", obj)

\* Style(styles = ...): every initial member goes through append_style; the
\* first TypeError leaves the constructor
RECURSIVE AppendAll(_, _)
AppendAll(obj, styles) ==
    IF styles = <<>> THEN Return(obj)
    ELSE Bind(Style_append_style(obj, Head(styles)), LAMBDA r :
            IF r.exc # "None" THEN r
            ELSE Bind(Tail(styles), LAMBDA rest : AppendAll(r.val, rest)))

Style_init(styles) == AppendAll(New("Style"), styles)

\* no call of styles() yet
NoGenerator == [status |-> "none", slot |-> "", pos |-> 0]

\* styles(): a generator over the bundle of the object in the slot ("self"
\* for the Style itself); nothing of the body runs before the first next()
Style_styles(slot) == [status |-> "suspended", slot |-> slot, pos |-> 0]

\* next(g): the body of styles() up to its next yield, on the bundle as it
\* is now; g.pos members have been yielded.  A generator that has raised or
\* returned raises StopIteration.
Style_styles_next(obj, g) ==
    IF g.status # "suspended"
    THEN [gen |-> g, exc |-> "StopIteration", val |-> None]
    ELSE IF g.pos >= Len(obj.styles)
         THEN [gen |-> [g EXCEPT !.status = "exhausted"],
               exc |-> "StopIteration", val |-> None]
         ELSE IF IsInstance(obj.styles[g.pos + 1],
                            {"_ColorStyle", "BalloonStyle"})
              THEN [gen |-> [g EXCEPT !.pos = @ + 1],
                    exc |-> "None", val |-> obj.styles[g.pos + 1]]
              ELSE [gen |-> [g EXCEPT !.status = "failed"],
                    exc |-> "TypeError", val |-> None]

\* one of the five blocks of Style.from_element; r is the outcome so far
FromChild(r, element, cls) ==
    IF r.exc # "None" THEN r
    ELSE Bind(Find(element, cls), LAMBDA style :
            IF style = NoElement THEN r
            ELSE Bind(New(cls), LAMBDA fresh :
                 Bind(Member_from_element(fresh, style), LAMBDA thestyle :
                    IF thestyle.exc # "None" THEN Raised(thestyle.exc, r.val)
                    ELSE Style_append_style(r.val, thestyle.val))))

\* Style.from_element with the LabelStyle block before the PolyStyle block
Style_from_element_label_first(obj, element) ==
    Bind(FromChild(Return(obj), element, "IconStyle"), LAMBDA r1 :
    Bind(FromChild(r1, element, "LineStyle"), LAMBDA r2 :
    Bind(FromChild(r2, element, "LabelStyle"), LAMBDA r3 :
    Bind(FromChild(r3, element, "PolyStyle"), LAMBDA r4 :
         FromChild(r4, element, "BalloonStyle")))))

Style_from_element(obj, element) ==
    Bind(FromChild(Return(obj), element, "IconStyle"), LAMBDA r1 :
    Bind(FromChild(r1, element, "LineStyle"), LAMBDA r2 :
    Bind(FromChild(r2, element, "PolyStyle"), LAMBDA r3 :
    Bind(FromChild(r3, element, "LabelStyle"), LAMBDA r4 :
         FromChild(r4, element, "BalloonStyle")))))

\* for style in self.styles(): element.append(style.etree_element()); the
\* generator is private to the call and run to its end within it
RECURSIVE EncodeStyles(_, _)
EncodeStyles(element, styles) ==
    IF styles = <<>> THEN Return(element)
    ELSE IF ~IsInstance(Head(styles), {"_ColorStyle", "BalloonStyle"})
         THEN Raise("TypeError")
         ELSE Bind(Member_etree_element(Head(styles)), LAMBDA child :
                 IF child.exc # "None" THEN child
                 ELSE Bind(AppendChild(element, child.val), LAMBDA grown :
                      Bind(Tail(styles), LAMBDA rest :
                         EncodeStyles(grown, rest))))

Style_etree_element(obj) == EncodeStyles(BaseElement(obj), obj.styles)

(***************************************************************************)
(* StyleMap: the slots normal and highlight                                *)
(***************************************************************************)
StyleMap(normal, highlight) ==
    [cls |-> "StyleMap", normal |-> normal, highlight |-> highlight]

\* the value a Pair decodes to: a Style from its Style child, else a StyleUrl
\* from its styleUrl child, else ValueError
PairValue(pair) ==
    Bind(Find(pair, "Style"), LAMBDA style :
    Bind(Find(pair, "styleUrl"), LAMBDA style_url :
       IF style # NoElement THEN Style_from_element(New("Style"), style)
       ELSE IF style_url # NoElement
            THEN StyleUrl_from_element(New("StyleUrl"), style_url)
            ELSE Raise("ValueError")))

\* the loop body with the final else assigning normal instead of raising
FromPair_lenient(obj, pair) ==
    Bind(Find(pair, "key"), LAMBDA key :
       IF key = NoElement THEN Raised("AttributeError", obj)
       ELSE IF key.text = StrVal(<<"h", "i", "g", "h", "l", "i", "g", "h", "t">>)
            THEN Bind(PairValue(pair), LAMBDA value :
                    IF value.exc # "None" THEN Raised(value.exc, obj)
                    ELSE Return([obj EXCEPT !.highlight = value.val]))
            ELSE Bind(PairValue(pair), LAMBDA value :
                    IF value.exc # "None" THEN Raised(value.exc, obj)
                    ELSE Return([obj EXCEPT !.normal = value.val])))

\* the body of the loop over the Pair children
FromPair(obj, pair) ==
    Bind(Find(pair, "key"), LAMBDA key :
       IF key = NoElement THEN Raised("AttributeError", obj)
       ELSE IF key.text = StrVal(<<"h", "i", "g", "h", "l", "i", "g", "h", "t">>)
            THEN Bind(PairValue(pair), LAMBDA value :
                    IF value.exc # "None" THEN Raised(value.exc, obj)
                    ELSE Return([obj EXCEPT !.highlight = value.val]))
            ELSE IF key.text = StrVal(<<"n", "o", "r", "m", "a", "l">>)
                 THEN Bind(PairValue(pair), LAMBDA value :
                         IF value.exc # "None" THEN Raised(value.exc, obj)
                         ELSE Return([obj EXCEPT !.normal = value.val]))
                 ELSE Raised("ValueError", obj))

RECURSIVE FromPairs(_, _)
FromPairs(obj, pairs) ==
    IF pairs = <<>> THEN Return(obj)
    ELSE Bind(FromPair(obj, Head(pairs)), LAMBDA r :
            IF r.exc # "None" THEN r
            ELSE Bind(Tail(pairs), LAMBDA rest : FromPairs(r.val, rest)))

\* StyleMap.from_element walking the Pair children from the last to the
\* first, so that the first Pair with a key wins
StyleMap_from_element_first_wins(obj, element) ==
    Bind(FindAll(element, "Pair"), LAMBDA pairs :
       FromPairs(obj, [i \in 1..Len(pairs) |-> pairs[Len(pairs) + 1 - i]]))

StyleMap_from_element(obj, element) ==
    Bind(FindAll(element, "Pair"), LAMBDA pairs : FromPairs(obj, pairs))

\* self.normal.etree_element() / self.highlight.etree_element()
Slot_etree_element(value) ==
    IF value.cls = "Style" THEN Style_etree_element(value)
    ELSE StyleUrl_etree_element(value)

\* a block of StyleMap.etree_element that skips the slot when its encoding
\* raises
EncodeSlot_skip(r, value, name) ==
    IF r.exc # "None" THEN r
    ELSE IF Truthy(value) /\ IsInstance(value, {"Style", "StyleUrl"})
         THEN Bind(Slot_etree_element(value), LAMBDA child :
                 IF child.exc # "None" THEN r
                 ELSE Return(AppendChild(r.val,
                         AppendChild(SubElement([tag |-> "Pair", text |-> None,
                                                 children |-> <<>>],
                                                "key", StrVal(name)),
                                     child.val))))
         ELSE r

\* one of the two blocks of StyleMap.etree_element; r is the outcome so far
EncodeSlot(r, value, name) ==
    IF r.exc # "None" THEN r
    ELSE IF Truthy(value) /\ IsInstance(value, {"Style", "StyleUrl"})
         THEN Bind(Slot_etree_element(value), LAMBDA child :
                 IF child.exc # "None" THEN Raise(child.exc)
                 ELSE Return(AppendChild(r.val,
                         AppendChild(SubElement([tag |-> "Pair", text |-> None,
                                                 children |-> <<>>],
                                                "key", StrVal(name)),
                                     child.val))))
         ELSE r

\* StyleMap.etree_element with the highlight block before the normal block
StyleMap_etree_element_highlight_first(obj) ==
    Bind(EncodeSlot(Return(BaseElement(obj)), obj.highlight,
                    <<"h", "i", "g", "h", "l", "i", "g", "h", "t">>),
         LAMBDA r1 :
       EncodeSlot(r1, obj.normal, <<"n", "o", "r", "m", "a", "l">>))

StyleMap_etree_element(obj) ==
    Bind(EncodeSlot(Return(BaseElement(obj)), obj.normal,
                    <<"n", "o", "r", "m", "a", "l">>), LAMBDA r1 :
       EncodeSlot(r1, obj.highlight,
                  <<"h", "i", "g", "h", "l", "i", "g", "h", "t">>))

(***************************************************************************)
(* Dispatch on every leaf class (the five members and StyleUrl)            *)
(***************************************************************************)
etree_element(obj) ==
    IF obj.cls = "StyleUrl" THEN StyleUrl_etree_element(obj)
    ELSE Member_etree_element(obj)

from_element(obj, element) ==
    IF obj.cls = "StyleUrl" THEN StyleUrl_from_element(obj, element)
    ELSE Member_from_element(obj, element)

\* the attributes each class declares
Fields(cls) ==
    CASE cls = "StyleUrl" -> {"url"}
      [] cls = "IconStyle" ->
            {"color", "colorMode", "scale", "heading", "icon_href"}
      [] cls = "LineStyle" -> {"color", "colorMode", "width"}
      [] cls = "PolyStyle" -> {"color", "colorMode", "fill", "outline"}
      [] cls = "LabelStyle" -> {"color", "colorMode", "scale"}
      [] cls = "BalloonStyle" -> {"bgColor", "textColor", "text", "displayMode"}

\* a == b field by field
FieldsEq(a, b) ==
    a.cls = b.cls /\ \A f \in Fields(a.cls) : PyEq(a[f], b[f])

(***************************************************************************)
(* Texts                                                                   *)
(***************************************************************************)
ff0000ff == StrVal(<<"f", "f", "0", "0", "0", "0", "f", "f">>)

c7f00ff00 == StrVal(<<"7", "f", "0", "0", "f", "f", "0", "0">>)

c80ffffff == StrVal(<<"8", "0", "f", "f", "f", "f", "f", "f">>)

normal == StrVal(<<"n", "o", "r", "m", "a", "l">>)

random == StrVal(<<"r", "a", "n", "d", "o", "m">>)

hide == StrVal(<<"h", "i", "d", "e">>)

default == StrVal(<<"d", "e", "f", "a", "u", "l", "t">>)

icon_png == StrVal(<<"i", "c", "o", "n", ".", "p", "n", "g">>)

pin_png == StrVal(<<"p", "i", "n", ".", "p", "n", "g">>)

name_text == StrVal(<<"$", "[", "n", "a", "m", "e", "]">>)

empty == StrVal(<<>>)

url_s1 == StrVal(<<"#", "s", "1">>)

url_s2 == StrVal(<<"a", ".", "k", "m", "l", "#", "s", "2">>)

(***************************************************************************)
(* Round trips: every instance is encoded, and the element decoded into a  *)
(* fresh instance of the same class                                        *)
(***************************************************************************)
MaxTenths == 10

\* 0.0, 0.1, ... MaxTenths / 10, and -1.5, 90.0, 1.25, 1e-05, 1e+16, -0.0
\* and inf
Floats ==
    {FloatVal(k, 1) : k \in 0..MaxTenths}
    \cup {FloatVal(-15, 1), FloatVal(900, 1), FloatVal(125, 2)}
    \cup {FloatVal(1, 5), FloatVal(1, -16), NegZero, Inf(1)}

Colors == {None, ff0000ff}

ColorModes == {None, normal, random}

Instances ==
    {IconStyle(c, cm, sc, h, i) :
        c \in Colors, cm \in ColorModes, sc \in Floats \cup {None},
        h \in Floats \cup {None}, i \in {None, icon_png}}
    \cup {LineStyle(c, cm, w) :
        c \in Colors, cm \in ColorModes,
        w \in Floats \cup {None, IntVal(1), IntVal(3), FloatVal(5, 324)}}
    \cup {PolyStyle(c, cm, f, o) :
        c \in Colors, cm \in ColorModes, f \in {None, IntVal(0), IntVal(1)},
        o \in {None, IntVal(0), IntVal(1)}}
    \cup {LabelStyle(c, cm, sc) :
        c \in Colors, cm \in ColorModes, sc \in Floats \cup {None}}
    \cup {BalloonStyle(b, t, x, d) :
        b \in Colors, t \in {None, c7f00ff00}, x \in {None, name_text},
        d \in {None, hide, default}}
    \cup {StyleUrl(u) : u \in {None, empty, url_s1, url_s2}}

InitRoundTrip ==
    /\ self \in Instances
    /\ op = "__init__"
    /\ arg = NoElement
    /\ pre = self
    /\ ret = Return(None)
    /\ gen = NoGenerator
    /\ alias = FALSE

\* ret = self.etree_element()
Encode ==
    /\ op = "__init__"
    /\ op' = "etree_element"
    /\ ret' = etree_element(self)
    /\ UNCHANGED <<self, arg, pre, gen, alias>>

\* fresh = cls(); fresh.from_element(ret): self becomes the fresh instance,
\* pre keeps the instance that was encoded
DecodeFresh ==
    /\ op = "etree_element"
    /\ ret.exc = "None"
    /\ LET r == from_element(New(self.cls), ret.val)
       IN /\ self' = r.val
          /\ ret' = Raise(r.exc)
    /\ op' = "roundtrip"
    /\ arg' = ret.val
    /\ pre' = self
    /\ UNCHANGED <<gen, alias>>

NextRoundTrip == Encode \/ DecodeFresh

SpecRoundTrip == InitRoundTrip /\ [][NextRoundTrip]_vars

\* every field holds a value of its domain: not None, and not the empty string
FullyPopulated(obj) ==
    \A f \in Fields(obj.cls) : obj[f] # None /\ obj[f] # empty

\* C1: a fully populated instance of any of the six classes encodes, and
\* decoding the element into a fresh instance of the class gives back every
\* field.
RoundTripIdentity ==
    /\ (op = "etree_element" /\ FullyPopulated(self)) => ret.exc = "None"
    /\ (op = "roundtrip" /\ FullyPopulated(pre)) =>
            (ret.exc = "None" /\ FieldsEq(self, pre))

(***************************************************************************)
(* Decoding: an instance built by its constructor decodes an element of    *)
(* its tag, and is encoded again                                           *)
(***************************************************************************)
Leaf(tag, text) == [tag |-> tag, text |-> text, children |-> <<>>]

\* no child with the tag, or one child with one of the texts
Opt(tag, texts) == {<<>>} \cup {<<Leaf(tag, t)>> : t \in texts}

Elem(tag, children) == [tag |-> tag, text |-> None, children |-> children]

\* the texts of the number children
NumberTexts ==
    [t_2_5 |-> StrVal(<<"2", ".", "5">>),
     t_abc |-> StrVal(<<"a", "b", "c">>),
     t_0 |-> StrVal(<<"0">>),
     t_90 |-> StrVal(<<" ", "9", "0", ".", "0", " ">>),
     t_1_50 |-> StrVal(<<"+", "1", ".", "5", "0">>),
     t_1_0 |-> StrVal(<<"1", ".", "0">>),
     t_7 |-> StrVal(<<"7">>),
     t_0_9 |-> StrVal(<<"0", ".", "9">>),
     \* texts float() reads otherwise than digit by digit
     t_1e3 |-> StrVal(<<"1", "e", "3">>),
     t_neg0 |-> StrVal(<<"-", "0">>),
     t_1_5_lines |-> StrVal(<<"\n", "1", ".", "5", "\r", "\n">>),
     t_inf |-> StrVal(<<"i", "n", "f">>),
     t_nan |-> StrVal(<<"N", "a", "N">>),
     t_2E_1 |-> StrVal(<<"2", "E", "-", "1">>),
     t_1_0_under |-> StrVal(<<"\t", "1", "_", "0">>),
     t_1e_05 |-> StrVal(<<"1", "e", "-", "0", "5">>),
     \* 2.5 after a no-break space and before a vertical tab
     t_2_5_nbsp |-> StrVal(<<Chr(160), "2", ".", "5", Chr(11)>>),
     \* 3.5 in Arabic-Indic digits
     t_3_5_arabic |-> StrVal(<<Chr(1635), ".", Chr(1637)>>),
     \* read as 5e-324, the smallest float
     t_3e_324 |-> StrVal(<<"3", "e", "-", "3", "2", "4">>),
     \* read as inf: above the largest float by more than half a step
     t_max |-> StrVal(<<"1", ".", "7", "9", "7", "6", "9", "3", "1", "3", "5",
                        "e", "3", "0", "8">>),
     \* read as the float 99999999999999991611392.0
     t_1e23 |-> StrVal(<<"1", "e", "2", "3">>)]

IconElements ==
    LET T == NumberTexts
    IN {Elem("IconStyle", c \o cm \o sc \o h \o i) :
           c \in Opt("color", {c7f00ff00}), cm \in Opt("colorMode", {random}),
           sc \in Opt("scale", {T.t_2_5, T.t_abc, T.t_1e3,
                                T.t_2_5_nbsp}),
           h \in Opt("heading", {T.t_0, T.t_90, T.t_1_50, T.t_neg0,
                                 T.t_1_5_lines}),
           i \in {<<>>, <<Elem("Icon", <<>>)>>,
                  <<Elem("Icon", <<Leaf("href", pin_png)>>)>>}}

\* the second width child is never read
LineElements ==
    LET T == NumberTexts
    IN {Elem("LineStyle", c \o cm \o w) :
           c \in Opt("color", {c7f00ff00, None}), cm \in Opt("colorMode", {random}),
           w \in Opt("width", {T.t_2_5, T.t_abc, T.t_7, T.t_3e_324})
                 \cup {<<Leaf("width", T.t_7), Leaf("width", T.t_2_5)>>}}

PolyElements ==
    LET T == NumberTexts
    IN {Elem("PolyStyle", c \o cm \o f \o o) :
           c \in Opt("color", {c7f00ff00}), cm \in Opt("colorMode", {random}),
           f \in Opt("fill", {T.t_1_0, T.t_0, T.t_abc, T.t_0_9, T.t_inf,
                              T.t_nan, T.t_2E_1, T.t_1e23}),
           o \in Opt("outline", {T.t_0, T.t_1_0})}

LabelElements ==
    LET T == NumberTexts
    IN {Elem("LabelStyle", c \o cm \o sc) :
           c \in Opt("color", {c7f00ff00}), cm \in Opt("colorMode", {random, empty}),
           sc \in Opt("scale", {T.t_2_5, None, empty, T.t_1_0_under,
                                T.t_1e_05, T.t_3_5_arabic,
                                T.t_max})}

\* the legacy color child stands before bgColor when both are there
BalloonElements ==
    {Elem("BalloonStyle", l \o b \o t \o x \o d) :
        l \in Opt("color", {ff0000ff, None}), b \in Opt("bgColor", {c7f00ff00}),
        t \in Opt("textColor", {ff0000ff}), x \in Opt("text", {name_text, empty}),
        d \in Opt("displayMode", {default})}

Elements(cls) ==
    CASE cls = "IconStyle" -> IconElements
      [] cls = "LineStyle" -> LineElements
      [] cls = "PolyStyle" -> PolyElements
      [] cls = "LabelStyle" -> LabelElements
      [] cls = "BalloonStyle" -> BalloonElements

MemberClasses ==
    <<"IconStyle", "LineStyle", "PolyStyle", "LabelStyle", "BalloonStyle">>

\* each class constructed with the defaults, and with every argument given
Constructed ==
    {New(MemberClasses[i]) : i \in 1..5}
    \cup {IconStyle(ff0000ff, normal, FloatVal(5, 1), FloatVal(45, 0), icon_png),
          LineStyle(ff0000ff, normal, FloatVal(4, 0)),
          PolyStyle(ff0000ff, normal, IntVal(0), IntVal(0)),
          LabelStyle(ff0000ff, normal, FloatVal(5, 1)),
          BalloonStyle(c80ffffff, c80ffffff, name_text, hide)}

InitDecode ==
    /\ self \in Constructed
    /\ op = "__init__"
    /\ arg = NoElement
    /\ pre = self
    /\ ret = Return(None)
    /\ gen = NoGenerator
    /\ alias = FALSE

\* self.from_element(element): an exception leaves self as far as it got
Decode(element) ==
    /\ op = "__init__"
    /\ LET r == from_element(self, element)
       IN /\ self' = r.val
          /\ ret' = Raise(r.exc)
    /\ op' = "from_element"
    /\ arg' = element
    /\ pre' = self
    /\ UNCHANGED <<gen, alias>>

\* ret = self.etree_element()
ReEncode ==
    /\ op \in {"__init__", "from_element"}
    /\ op' = "etree_element"
    /\ ret' = etree_element(self)
    /\ UNCHANGED <<self, arg, pre, gen, alias>>

NextDecode ==
    \/ \E element \in Elements(self.cls) : Decode(element)
    \/ ReEncode

SpecDecode == InitDecode /\ [][NextDecode]_vars

\* the child that from_element reads for attribute f is not in the element
TagAbsent(element, f) ==
    IF f = "icon_href"
    THEN \/ Find(element, "Icon") = NoElement
         \/ Find(Find(element, "Icon"), "href") = NoElement
    ELSE Find(element, f) = NoElement

\* C7 as stated: from_element of the five classes leaves every attribute
\* whose own child tag is absent from the element at the value it had.
DecodeFrame ==
    op = "from_element" =>
        \A f \in Fields(pre.cls) : TagAbsent(arg, f) => self[f] = pre[f]

\* C7 amended: from_element of the five classes leaves every attribute at the
\* value it had when its child tag is absent from the element, where for
\* BalloonStyle.bgColor the legacy color child counts as its tag too; no
\* default is applied again, whether the decode returns or raises.
DecodeFrameLegacy ==
    op = "from_element" =>
        \A f \in Fields(pre.cls) :
            (/\ TagAbsent(arg, f)
             /\ (pre.cls = "BalloonStyle" /\ f = "bgColor")
                    => Find(arg, "color") = NoElement)
            => self[f] = pre[f]

\* a decode that kept a constructor argument other than the default for an
\* absent tag, and assigned another attribute from a present one
DecodeFrameWitness ==
    /\ op = "from_element"
    /\ \E f \in Fields(pre.cls) :
          TagAbsent(arg, f) /\ pre[f] # New(pre.cls)[f] /\ self[f] = pre[f]
    /\ \E g \in Fields(pre.cls) : ~TagAbsent(arg, g) /\ self[g] # pre[g]

\* C8: BalloonStyle.from_element takes bgColor from the bgColor child when
\* there is one and from the legacy color child only when there is none;
\* etree_element never emits a color child, so a decoded legacy colour is
\* written back as a bgColor child.
BalloonLegacyOneWay ==
    /\ (op = "from_element" /\ self.cls = "BalloonStyle") =>
          self.bgColor =
             IF Find(arg, "bgColor") # NoElement THEN Find(arg, "bgColor").text
             ELSE IF Find(arg, "color") # NoElement THEN Find(arg, "color").text
                  ELSE pre.bgColor
    /\ (op = "etree_element" /\ self.cls = "BalloonStyle") =>
          (ret.exc = "None" /\ Find(ret.val, "color") = NoElement)
    /\ (/\ op = "etree_element" /\ self.cls = "BalloonStyle"
        /\ arg # NoElement
        /\ Find(arg, "bgColor") = NoElement
        /\ Find(arg, "color") # NoElement
        /\ Find(arg, "color").text # None) =>
          (/\ Find(ret.val, "bgColor") # NoElement
           /\ Find(ret.val, "bgColor").text = Find(arg, "color").text)

\* a legacy element, without bgColor, decoded over another bgColor and
\* encoded again
BalloonLegacyWitness ==
    /\ op = "etree_element" /\ self.cls = "BalloonStyle"
    /\ arg # NoElement
    /\ Find(arg, "bgColor") = NoElement
    /\ Find(arg, "color") # NoElement
    /\ Find(arg, "color").text = ff0000ff
    /\ pre.bgColor # self.bgColor
    /\ Find(ret.val, "bgColor") # NoElement

(***************************************************************************)
(* StyleUrl: any sequence of constructions, assignments to url, decodes    *)
(* and encodes                                                             *)
(***************************************************************************)
url_blank == StrVal(<<" ">>)

Urls == {None, empty, url_s1, url_s2}

\* the text of a styleUrl element: <styleUrl/> has the text None
UrlTexts == {None, empty, url_s1, url_blank}

InitUrl ==
    /\ self \in {StyleUrl(u) : u \in Urls}
    /\ op = "__init__"
    /\ arg = NoElement
    /\ pre = self
    /\ ret = Return(None)
    /\ gen = NoGenerator
    /\ alias = FALSE

\* self = StyleUrl(url = url)
Construct(url) ==
    /\ self' = StyleUrl(url)
    /\ op' = "__init__"
    /\ arg' = url
    /\ pre' = self
    /\ ret' = Return(None)
    /\ UNCHANGED <<gen, alias>>

\* self.url = url
Assign(url) ==
    /\ self' = [self EXCEPT !.url = url]
    /\ op' = "setattr"
    /\ arg' = url
    /\ pre' = self
    /\ ret' = Return(None)
    /\ UNCHANGED <<gen, alias>>

\* self.from_element(element)
DecodeUrl(element) ==
    /\ LET r == StyleUrl_from_element(self, element)
       IN /\ self' = r.val
          /\ ret' = Raise(r.exc)
    /\ op' = "from_element"
    /\ arg' = element
    /\ pre' = self
    /\ UNCHANGED <<gen, alias>>

\* ret = self.etree_element()
EncodeUrl ==
    /\ op # "etree_element"
    /\ op' = "etree_element"
    /\ ret' = StyleUrl_etree_element(self)
    /\ UNCHANGED <<self, arg, pre, gen, alias>>

NextUrl ==
    \/ \E url \in Urls : Construct(url)
    \/ \E url \in Urls : Assign(url)
    \/ \E text \in UrlTexts : DecodeUrl(Leaf("styleUrl", text))
    \/ EncodeUrl

SpecUrl == InitUrl /\ [][NextUrl]_vars

\* C6: StyleUrl.etree_element raises ValueError, and returns no element,
\* exactly when url is None or the empty string; an element it returns has
\* the url, which is not empty, as its text.
MissingUrlRejected ==
    op = "etree_element" =>
        IF self.url = None \/ self.url = empty
        THEN ret = Raise("ValueError")
        ELSE /\ ret.exc = "None"
             /\ ret.val.tag = "styleUrl"
             /\ ret.val.text = self.url
             /\ Len(ret.val.text.s) > 0

\* a styleUrl element with empty text decoded over a url, then encoded
MissingUrlWitness ==
    /\ op = "etree_element"
    /\ arg = Leaf("styleUrl", empty)
    /\ pre.url = url_s1
    /\ self.url = empty
    /\ ret.exc = "ValueError"

(***************************************************************************)
(* Style: construction from a list, append_style, from_element on a fresh  *)
(* Style, styles() and the next() calls on its generator, in any order     *)
(* with the other calls, and etree_element                                 *)
(***************************************************************************)
MaxStyles == 3

MaxInitial == 2

MaxChildren == 5

\* values handed to append_style: members of the five classes, a _ColorStyle
\* created directly, objects of the other classes of the module, and values
\* that are no style at all
Candidates ==
    {New(MemberClasses[i]) : i \in 1..5}
    \cup {New("_ColorStyle"), StyleUrl(url_s1), New("Style"),
          New("StyleMap"), None, ff0000ff, IntVal(1)}

\* the sequences over S of length at most n
SeqsUpTo(S, n) == UNION {[1..k -> S] : k \in 0..n}

ChildTags == {MemberClasses[i] : i \in 1..5}

\* the i-th child of a Style element carries i, in its text child for a
\* BalloonStyle and in its color child otherwise
Marked(tag, i) ==
    Elem(tag, <<Leaf(IF tag = "BalloonStyle" THEN "text" ELSE "color",
                     StrVal(<<DigitChars[i + 1]>>))>>)

StyleElements ==
    {Elem("Style", [i \in 1..Len(tags) |-> Marked(tags[i], i)]) :
        tags \in SeqsUpTo(ChildTags, MaxChildren)}

\* self = Style(styles = initial): a TypeError leaves no object
InitStyle ==
    \E initial \in SeqsUpTo(Candidates, MaxInitial) :
        LET r == Style_init(initial)
        IN /\ self = IF r.exc = "None" THEN r.val ELSE None
           /\ op = "__init__"
           /\ arg = [styles |-> initial]
           /\ pre = None
           /\ ret = Raise(r.exc)
           /\ gen = NoGenerator
           /\ alias = FALSE

\* self.append_style(style)
AppendStyle(style) ==
    /\ IsObject(self)
    /\ Len(self.styles) < MaxStyles
    /\ LET r == Style_append_style(self, style)
       IN /\ self' = r.val
          /\ ret' = Raise(r.exc)
    /\ op' = "append_style"
    /\ arg' = style
    /\ pre' = self
    /\ UNCHANGED <<gen, alias>>

\* self = Style(); self.from_element(element)
DecodeStyle ==
    /\ self = New("Style")
    /\ op = "__init__"
    /\ \E element \in StyleElements :
          LET r == Style_from_element(self, element)
          IN /\ self' = r.val
             /\ ret' = Raise(r.exc)
             /\ arg' = element
    /\ op' = "from_element"
    /\ pre' = self
    /\ UNCHANGED <<gen, alias>>

\* gen = self.styles()
TraverseStyle ==
    /\ IsObject(self)
    /\ gen' = Style_styles("self")
    /\ op' = "styles"
    /\ arg' = NoElement
    /\ pre' = self
    /\ ret' = Return(None)
    /\ UNCHANGED <<self, alias>>

\* ret = next(gen); pre keeps the generator as it was
NextMember ==
    /\ gen.status # "none"
    /\ LET r == Style_styles_next(self, gen)
       IN /\ gen' = r.gen
          /\ ret' = [exc |-> r.exc, val |-> r.val]
    /\ op' = "next"
    /\ arg' = NoElement
    /\ pre' = gen
    /\ UNCHANGED <<self, alias>>

\* ret = self.etree_element()
EncodeStyle ==
    /\ IsObject(self)
    /\ op' = "etree_element"
    /\ ret' = Style_etree_element(self)
    /\ arg' = (IF op = "from_element" THEN arg ELSE NoElement)
    /\ pre' = (IF op = "from_element" THEN pre ELSE self)
    /\ UNCHANGED <<self, gen, alias>>

NextStyle ==
    \/ \E style \in Candidates : AppendStyle(style)
    \/ DecodeStyle
    \/ TraverseStyle
    \/ NextMember
    \/ EncodeStyle

SpecStyle == InitStyle /\ [][NextStyle]_vars

FiveKinds == {"IconStyle", "LineStyle", "PolyStyle", "LabelStyle", "BalloonStyle"}

\* C2 as stated: append_style stores a value at the end of the bundle when
\* its class is one of the five kinds, and raises TypeError leaving the
\* bundle as it was for any other value; the constructor does so for each
\* initial member in turn; so every stored member is of one of the five
\* kinds.
BundleAdmission ==
    /\ IsObject(self) =>
          \A i \in 1..Len(self.styles) : ClassOf(self.styles[i]) \in FiveKinds
    /\ op = "append_style" =>
          IF ClassOf(arg) \in FiveKinds
          THEN ret.exc = "None" /\ self.styles = Append(pre.styles, arg)
          ELSE ret.exc = "TypeError" /\ self = pre
    /\ op = "__init__" =>
          IF \A i \in 1..Len(arg.styles) : ClassOf(arg.styles[i]) \in FiveKinds
          THEN ret.exc = "None" /\ self.styles = arg.styles
          ELSE ret.exc = "TypeError" /\ ~IsObject(self)

\* the classes whose objects are instances of _ColorStyle or of BalloonStyle
Admitted == FiveKinds \cup {"_ColorStyle"}

\* C2 amended: append_style stores a value at the end of the bundle when it
\* is an instance of _ColorStyle or of BalloonStyle, that is of one of the
\* five kinds or a _ColorStyle created directly, and raises TypeError
\* leaving the bundle as it was for any other value; the constructor does so
\* for each initial member in turn; so every stored member is such an
\* instance, and the bundle is the accepted members in call order.
BundleAdmissionInstances ==
    /\ IsObject(self) =>
          \A i \in 1..Len(self.styles) : ClassOf(self.styles[i]) \in Admitted
    /\ op = "append_style" =>
          IF ClassOf(arg) \in Admitted
          THEN ret.exc = "None" /\ self.styles = Append(pre.styles, arg)
          ELSE ret.exc = "TypeError" /\ self = pre
    /\ op = "__init__" =>
          IF \A i \in 1..Len(arg.styles) : ClassOf(arg.styles[i]) \in Admitted
          THEN ret.exc = "None" /\ self.styles = arg.styles
          ELSE ret.exc = "TypeError" /\ ~IsObject(self)

\* a bundle of a BalloonStyle and a _ColorStyle created directly that has
\* just refused a StyleUrl
BundleAdmissionWitness ==
    /\ op = "append_style"
    /\ arg = StyleUrl(url_s1)
    /\ ret.exc = "TypeError"
    /\ self = pre
    /\ Len(self.styles) = 2
    /\ self.styles[1].cls = "BalloonStyle"
    /\ self.styles[2].cls = "_ColorStyle"

\* the five tags, in canonical order, that occur among the children
CanonicalTags(element) ==
    SelectSeq(MemberClasses,
              LAMBDA c : \E i \in 1..Len(element.children) :
                            element.children[i].tag = c)

\* the number carried by the first child with the tag
FirstMark(element, tag) ==
    LET i == CHOOSE k \in 1..Len(element.children) :
                /\ element.children[k].tag = tag
                /\ \A j \in 1..(k - 1) : element.children[j].tag # tag
    IN StrVal(<<DigitChars[i + 1]>>)

\* C3: Style.from_element on a fresh Style stores one member per kind of
\* tag among the children, decoded from the first child with that tag, in
\* the order Icon, Line, Poly, Label, Balloon whatever the order of the
\* children; etree_element then emits the children in that order.
CanonicalOrder ==
    /\ op = "from_element" =>
          /\ ret.exc = "None"
          /\ Len(self.styles) = Len(CanonicalTags(arg))
          /\ \A k \in 1..Len(self.styles) :
                LET member == self.styles[k]
                    tag == CanonicalTags(arg)[k]
                IN /\ member.cls = tag
                   /\ FirstMark(arg, tag) =
                         IF tag = "BalloonStyle" THEN member.text
                         ELSE member.color
    /\ (op = "etree_element" /\ "tag" \in DOMAIN arg) =>
          /\ ret.exc = "None"
          /\ Len(ret.val.children) = Len(CanonicalTags(arg))
          /\ \A k \in 1..Len(ret.val.children) :
                LET child == ret.val.children[k]
                    tag == CanonicalTags(arg)[k]
                IN /\ child.tag = tag
                   /\ Find(child, IF tag = "BalloonStyle" THEN "text"
                                  ELSE "color").text = FirstMark(arg, tag)

\* the children Label, Icon, Poly, Line, Balloon decoded and encoded again
CanonicalOrderWitness ==
    /\ op = "etree_element"
    /\ "tag" \in DOMAIN arg
    /\ Len(arg.children) = 5
    /\ arg.children[1].tag = "LabelStyle"
    /\ arg.children[2].tag = "IconStyle"
    /\ arg.children[3].tag = "PolyStyle"
    /\ arg.children[4].tag = "LineStyle"
    /\ arg.children[5].tag = "BalloonStyle"
    /\ ret.exc = "None"
    /\ Len(ret.val.children) = 5
    /\ ret.val.children[1].tag = "IconStyle"

(***************************************************************************)
(* StyleMap: construction (with two objects or one object in both slots),  *)
(* direct mutation of a slot's bundle, encoding, styles() of a slot and    *)
(* the next() calls on its generator, decoding of a StyleMap element       *)
(***************************************************************************)
MaxPairs == 3

\* the longest bundle a direct append is made on
MaxDirect == 2

highlight == StrVal(<<"h", "i", "g", "h", "l", "i", "g", "h", "t">>)

sideways == StrVal(<<"s", "i", "d", "e", "w", "a", "y", "s">>)

Slots == <<"normal", "highlight">>

\* values given to the constructor for a slot
SlotValues ==
    {None, StyleUrl(url_s1), StyleUrl(empty), New("Style"),
     [cls |-> "Style", styles |-> <<New("LineStyle")>>],
     New("BalloonStyle"), ff0000ff, empty}

\* members a caller appends to self.normal._styles or self.highlight._styles
\* without append_style
DirectMembers == {New("IconStyle"), StyleUrl(url_s1)}

Digit(i) == DigitChars[i + 1]

\* what the i-th Pair holds besides its key
PairContent(kind, i) ==
    LET style == Elem("Style", <<Elem("LineStyle", <<Leaf("color", StrVal(<<Digit(i)>>))>>)>>)
        style_url == Leaf("styleUrl", StrVal(<<"#", Digit(i)>>))
    IN CASE kind = "Style" -> <<style>>
         [] kind = "styleUrl" -> <<style_url>>
         [] kind = "both" -> <<style_url, style>>
         [] kind = "neither" -> <<>>
         [] kind = "badStyle" ->
               <<Elem("Style", <<Elem("LineStyle",
                                      <<Leaf("width", NumberTexts.t_abc)>>)>>)>>

KeyText(name) ==
    CASE name = "normal" -> normal
      [] name = "highlight" -> highlight
      [] name = "sideways" -> sideways

\* the i-th Pair: a key child unless the shape has none, then the content
PairAt(shape, i) ==
    Elem("Pair",
         (IF shape[1] = "nokey" THEN <<>> ELSE <<Leaf("key", KeyText(shape[1]))>>)
         \o PairContent(shape[2], i))

PairShapes ==
    ({"normal", "highlight", "sideways"}
        \X {"Style", "styleUrl", "both", "neither"})
    \cup {<<"normal", "badStyle">>, <<"nokey", "styleUrl">>}

MapElements ==
    {Elem("StyleMap", [i \in 1..Len(shapes) |-> PairAt(shapes[i], i)]) :
        shapes \in SeqsUpTo(PairShapes, MaxPairs)}

InitMap ==
    /\ self \in {StyleMap(n, h) : n \in SlotValues, h \in SlotValues}
    /\ op = "__init__"
    /\ arg = NoElement
    /\ pre = self
    /\ ret = Return(None)
    /\ gen = NoGenerator
    /\ alias \in (IF IsObject(self.normal) /\ self.normal = self.highlight
                  THEN BOOLEAN ELSE {FALSE})

\* self.<slot>._styles.append(member), past append_style; the other slot
\* shows the member too when it holds the same object
DirectMutation(slot, member) ==
    /\ IsObject(self[slot]) /\ self[slot].cls = "Style"
    /\ Len(self[slot].styles) < MaxDirect
    /\ self' = IF alias
               THEN [self EXCEPT !.normal.styles = Append(@, member),
                                 !.highlight.styles = Append(@, member)]
               ELSE [self EXCEPT ![slot].styles = Append(@, member)]
    /\ op' = "append"
    /\ arg' = member
    /\ pre' = self
    /\ ret' = Return(None)
    /\ UNCHANGED <<gen, alias>>

\* ret = self.etree_element()
EncodeMap ==
    /\ op' = "etree_element"
    /\ ret' = StyleMap_etree_element(self)
    /\ arg' = (IF op = "from_element" THEN arg ELSE NoElement)
    /\ pre' = (IF op = "from_element" THEN pre ELSE self)
    /\ UNCHANGED <<self, gen, alias>>

\* gen = self.<slot>.styles()
TraverseSlot(slot) ==
    /\ IsObject(self[slot]) /\ self[slot].cls = "Style"
    /\ gen' = Style_styles(slot)
    /\ op' = "styles"
    /\ arg' = StrVal(<<slot>>)
    /\ pre' = self
    /\ ret' = Return(None)
    /\ UNCHANGED <<self, alias>>

\* ret = next(gen); pre keeps the generator as it was
NextSlotMember ==
    /\ gen.status # "none"
    /\ LET r == Style_styles_next(self[gen.slot], gen)
       IN /\ gen' = r.gen
          /\ ret' = [exc |-> r.exc, val |-> r.val]
    /\ op' = "next"
    /\ arg' = NoElement
    /\ pre' = gen
    /\ UNCHANGED <<self, alias>>

\* ret = self.<slot>.etree_element()
EncodeSlotStyle(slot) ==
    /\ IsObject(self[slot]) /\ self[slot].cls = "Style"
    /\ op' = "Style.etree_element"
    /\ arg' = StrVal(<<slot>>)
    /\ ret' = Style_etree_element(self[slot])
    /\ pre' = self
    /\ UNCHANGED <<self, gen, alias>>

\* self.from_element(element), on a map constructed empty or with a
\* StyleUrl and a Style; the objects it assigns are new ones
DecodeMap ==
    /\ op = "__init__"
    /\ self \in {New("StyleMap"),
                 StyleMap(StyleUrl(url_s1),
                          [cls |-> "Style", styles |-> <<New("LineStyle")>>])}
    /\ \E element \in MapElements :
          LET r == StyleMap_from_element(self, element)
          IN /\ self' = r.val
             /\ ret' = Raise(r.exc)
             /\ arg' = element
    /\ op' = "from_element"
    /\ pre' = self
    /\ alias' = FALSE
    /\ UNCHANGED gen

NextMap ==
    \/ \E slot \in {"normal", "highlight"}, member \in DirectMembers :
          DirectMutation(slot, member)
    \/ EncodeMap
    \/ \E slot \in {"normal", "highlight"} : TraverseSlot(slot)
    \/ NextSlotMember
    \/ \E slot \in {"normal", "highlight"} : EncodeSlotStyle(slot)
    \/ DecodeMap

SpecMap == InitMap /\ [][NextMap]_vars

\* the Pair children of a StyleMap element, in document order
Pairs(element) == SelectSeq(element.children, LAMBDA c : c.tag = "Pair")

\* the key child of the pair reads exactly "normal" or "highlight"
ValidKey(pair) ==
    /\ Find(pair, "key") # NoElement
    /\ Find(pair, "key").text \in {normal, highlight}

\* the slot a valid key names
SlotOf(pair) ==
    IF Find(pair, "key").text = normal THEN "normal" ELSE "highlight"

HasStyle(pair) == Find(pair, "Style") # NoElement

HasStyleUrl(pair) == Find(pair, "styleUrl") # NoElement

\* the outcome of decoding the pair's content: a fresh Style from the Style
\* child when there is one, else a fresh StyleUrl from the styleUrl child
Nested(pair) ==
    IF HasStyle(pair)
    THEN Style_from_element(New("Style"), Find(pair, "Style"))
    ELSE StyleUrl_from_element(New("StyleUrl"), Find(pair, "styleUrl"))

\* a pair that the decode gets past: a valid key, and a Style or a styleUrl
\* that decodes
WellFormed(pair) ==
    /\ ValidKey(pair)
    /\ HasStyle(pair) \/ HasStyleUrl(pair)
    /\ Nested(pair).exc = "None"

\* the index of the first pair that is not well formed, or one past the last
Stop(pairs) ==
    IF \A i \in 1..Len(pairs) : WellFormed(pairs[i]) THEN Len(pairs) + 1
    ELSE CHOOSE i \in 1..Len(pairs) :
            /\ ~WellFormed(pairs[i])
            /\ \A j \in 1..(i - 1) : WellFormed(pairs[j])

\* C4: StyleMap.from_element raises ValueError at a Pair whose key text is
\* neither "normal" nor "highlight", and at a Pair with a valid key and
\* neither a Style nor a styleUrl child; any other Pair it gets to assigns
\* the slot its key names: a Style decoded from the Style child when there
\* is one, else a StyleUrl decoded from the styleUrl child (the slot shows
\* it unless a later Pair assigned the same slot).
DecodeStrictness ==
    op = "from_element" =>
        LET pairs == Pairs(arg)
            stop == Stop(pairs)
        IN \A i \in 1..Len(pairs) :
              (i <= stop /\ Find(pairs[i], "key") # NoElement) =>
                 IF ~ValidKey(pairs[i]) THEN ret.exc = "ValueError"
                 ELSE IF ~(HasStyle(pairs[i]) \/ HasStyleUrl(pairs[i]))
                      THEN ret.exc = "ValueError"
                      ELSE (/\ Nested(pairs[i]).exc = "None"
                            /\ \A j \in (i + 1)..(stop - 1) :
                                  SlotOf(pairs[j]) # SlotOf(pairs[i])) =>
                              /\ self[SlotOf(pairs[i])] = Nested(pairs[i]).val
                              /\ self[SlotOf(pairs[i])].cls =
                                    IF HasStyle(pairs[i]) THEN "Style"
                                    ELSE "StyleUrl"

\* a Pair keyed highlight holding a styleUrl and a Style, which assigned the
\* Style, followed by a Pair keyed sideways, which raised
DecodeStrictnessWitness ==
    /\ op = "from_element"
    /\ Len(Pairs(arg)) = 2
    /\ ValidKey(Pairs(arg)[1]) /\ SlotOf(Pairs(arg)[1]) = "highlight"
    /\ HasStyle(Pairs(arg)[1]) /\ HasStyleUrl(Pairs(arg)[1])
    /\ Find(Pairs(arg)[2], "key") # NoElement
    /\ Find(Pairs(arg)[2], "key").text = sideways
    /\ pre.highlight = None
    /\ IsObject(self.highlight) /\ self.highlight.cls = "Style"
    /\ ret.exc = "ValueError"

\* the slot holds a Style or a StyleUrl
Holds(value) == IsObject(value) /\ value.cls \in {"Style", "StyleUrl"}

\* the slots, normal first, that hold a Style or a StyleUrl
Held(obj) == SelectSeq(Slots, LAMBDA slot : Holds(obj[slot]))

\* C5: StyleMap.etree_element returns a StyleMap element with one Pair per
\* slot holding a Style or a StyleUrl, normal before highlight, each Pair a
\* key child with the slot name and then the slot's own element; a slot
\* holding None or another value adds no Pair and no error: an error is
\* the error of a held slot's own encoding.
EncodeShape ==
    op = "etree_element" =>
        LET held == Held(self)
        IN /\ ret.exc = "None" =>
                ret.val =
                   Elem("StyleMap",
                        [k \in 1..Len(held) |->
                            Elem("Pair",
                                 <<Leaf("key", KeyText(held[k])),
                                   Slot_etree_element(self[held[k]]).val>>)])
           /\ ret.exc # "None" =>
                \E k \in 1..Len(held) :
                    Slot_etree_element(self[held[k]]).exc = ret.exc
           /\ (\A k \in 1..Len(held) :
                    Slot_etree_element(self[held[k]]).exc = "None") =>
                ret.exc = "None"

\* normal = StyleUrl("#s1") and highlight = None encoded: one Pair, keyed
\* normal, holding the styleUrl element
EncodeShapeWitness ==
    /\ op = "etree_element"
    /\ self = StyleMap(StyleUrl(url_s1), None)
    /\ ret.exc = "None"
    /\ ret.val.children =
          <<Elem("Pair", <<Leaf("key", normal), Leaf("styleUrl", url_s1)>>)>>

\* C9: when every Pair is well formed, StyleMap.from_element raises nothing,
\* each slot holds the value decoded from the last Pair with its key, and a
\* slot whose key is on no Pair keeps the value it had before the call.
LastWins ==
    (op = "from_element"
       /\ \A i \in 1..Len(Pairs(arg)) : WellFormed(Pairs(arg)[i])) =>
        LET pairs == Pairs(arg)
        IN /\ ret.exc = "None"
           /\ \A slot \in {"normal", "highlight"} :
                LET keyed == {i \in 1..Len(pairs) : SlotOf(pairs[i]) = slot}
                    last == CHOOSE i \in keyed : \A j \in keyed : j <= i
                IN self[slot] = IF keyed = {} THEN pre[slot]
                                ELSE Nested(pairs[last]).val

\* two Pairs keyed normal, a Style and then a styleUrl, decoded over a map
\* whose slots were set: normal holds the second, highlight is kept
LastWinsWitness ==
    /\ op = "from_element"
    /\ Len(Pairs(arg)) = 2
    /\ ValidKey(Pairs(arg)[1]) /\ SlotOf(Pairs(arg)[1]) = "normal"
    /\ HasStyle(Pairs(arg)[1])
    /\ ValidKey(Pairs(arg)[2]) /\ SlotOf(Pairs(arg)[2]) = "normal"
    /\ ~HasStyle(Pairs(arg)[2]) /\ HasStyleUrl(Pairs(arg)[2])
    /\ ret.exc = "None"
    /\ pre.normal = StyleUrl(url_s1)
    /\ self.normal = StyleUrl(StrVal(<<"#", "2">>))
    /\ self.highlight = pre.highlight
    /\ self.highlight # None

\* a bundle holding a member that is none of the five kinds
Corrupted(style) ==
    \E i \in 1..Len(style.styles) : ClassOf(style.styles[i]) \notin FiveKinds

\* the error that encoding the value of a slot ends in, or "None"
FailKind(value) ==
    IF ~Holds(value) THEN "None"
    ELSE IF value.cls = "StyleUrl"
         THEN (IF value.url \in {None, empty} THEN "ValueError" ELSE "None")
         ELSE IF Corrupted(value) THEN "TypeError" ELSE "None"

\* C10: an error of a nested member is the error of the enclosing
\* operation, which returns no element.  StyleMap.etree_element raises the
\* error of the first slot whose encoding fails: ValueError for a StyleUrl
\* with no url, TypeError for a Style whose bundle holds a member of another
\* kind.  A traversal of styles() raises TypeError at such a member, each
\* time one is made, and never runs to its end over such a bundle;
\* etree_element of such a Style raises TypeError.  StyleMap.from_element
\* raises the error of the nested Style that fails to decode.
ErrorsPropagate ==
    /\ op = "etree_element" =>
          /\ FailKind(self.normal) # "None" =>
                ret = Raise(FailKind(self.normal))
          /\ (FailKind(self.normal) = "None"
                /\ FailKind(self.highlight) # "None") =>
                ret = Raise(FailKind(self.highlight))
    /\ (op = "next" /\ pre.status = "suspended") =>
          LET bundle == self[pre.slot].styles
          IN /\ (/\ pre.pos < Len(bundle)
                 /\ ClassOf(bundle[pre.pos + 1]) \notin FiveKinds) =>
                   (ret = Raise("TypeError") /\ gen.status = "failed")
             /\ gen.status = "exhausted" => ~Corrupted(self[pre.slot])
             /\ ret.exc \notin {"TypeError", "StopIteration"} =>
                   ret = Return(bundle[gen.pos])
    /\ (op = "next" /\ pre.status # "suspended") =>
          ret = Raise("StopIteration")
    /\ op = "Style.etree_element" =>
          IF Corrupted(self[arg.s[1]]) THEN ret = Raise("TypeError")
          ELSE ret.exc = "None"
    /\ op = "from_element" =>
          LET pairs == Pairs(arg)
              stop == Stop(pairs)
          IN (/\ stop <= Len(pairs)
              /\ ValidKey(pairs[stop])
              /\ HasStyle(pairs[stop])) =>
                /\ Nested(pairs[stop]).exc = "ValueError"
                /\ ret = Raise("ValueError")

\* normal encoded, then highlight, a StyleUrl whose url is empty: ValueError
\* and no element
ErrorsPropagateWitness ==
    /\ op = "etree_element"
    /\ self.normal = StyleUrl(url_s1)
    /\ self.highlight = StyleUrl(empty)
    /\ ret = Raise("ValueError")

=============================================================================
